---- MODULE Spec2Model ----
(***************************************************************************)
(* Model of circlepack.py: non_overlapping_circle_packed_image, the        *)
(* two-phase randomized circle packing.  The random source is modelled as  *)
(* nondeterministic choice; every call of random.randint(a, b) either      *)
(* yields some integer of a..b or, when a > b, raises ValueError.          *)
(***************************************************************************)
EXTENDS Integers, Sequences, FiniteSets

VARIABLES
    width, height,        \* canvas size (img.size)
    min_radius, max_radius, density_factor, max_attempts,   \* parameters
    target_circles,       \* computed target (line 81)
    placed_circles,       \* sequence of <<x, y, r>>
    circles_placed,       \* counter kept next to placed_circles
    total_attempts,       \* Phase 1 attempt counter
    gap_fill_attempts,    \* Phase 2 draw budget (line 116)
    i,                    \* Phase 2 loop index: draws completed so far
    r, x, y,              \* the candidate of the current iteration (0: not yet bound)
    size_stats,           \* statistics record (line 136)
    pc,                   \* "phase1", "phase2", "done", "error"; "sample" in SpecRadius,
                          \* "entry" (before line 79) in SpecInvalid
    raised                \* the call that raised, or "none"

vars == <<width, height, min_radius, max_radius, density_factor, max_attempts,
          target_circles, placed_circles, circles_placed, total_attempts,
          gap_fill_attempts, i, r, x, y, size_stats, pc, raised>>

config == <<width, height, min_radius, max_radius, density_factor, max_attempts,
            target_circles>>

(***************************************************************************)
(* Bounds of the model.                                                    *)
(***************************************************************************)
MaxWidth == 6
MaxHeight == 6
MaxMinRadius == 1
MaxMaxRadius == 2
MaxDensityHalves == 3
MaxTarget == 2
\* cap on the Phase 1 attempt budget target_circles * max_attempts
MaxBudget == 3
MaxSampleMinRadius == 3
MaxSampleMaxRadius == 25

(***************************************************************************)
(* Program constants.                                                      *)
(***************************************************************************)
\* math.pi as the rational PiNum / PiDen
PiNum == 355
PiDen == 113
\* default buffer of circles_overlap
Buffer == 2
\* Phase 2 draws its radius from min_radius .. min_radius + GapFillSpan
GapFillSpan == 5

Min(a, b) == IF a <= b THEN a ELSE b

Last(s) == s[Len(s)]

(***************************************************************************)
(* target_circles = int((image_area / avg_circle_area) * density_factor)   *)
(* with avg_circle_area = pi * ((min_radius + max_radius) / 2) ** 2.       *)
(* density_factor is carried in halves (3 stands for 1.5), so the value is *)
(*   floor( 4 * w * h * dh / (2 * pi * (min + max)^2) ).                   *)
(***************************************************************************)
TargetCircles(w, h, mn, mx, dh) ==
    (4 * w * h * dh * PiDen) \div (2 * PiNum * (mn + mx) * (mn + mx))

(***************************************************************************)
(* circles_overlap: sqrt(dx^2 + dy^2) < r1 + r2 + buffer.  All operands    *)
(* are integers, so for a positive right-hand side the comparison is the   *)
(* comparison of the squares; no distance is below a right-hand side <= 0  *)
(* (radii <= 0 come with invalid configurations only).                     *)
(***************************************************************************)
\* circles_overlap comparing against r1 + r2, the buffer forgotten
circles_overlap_no_buffer(x1, y1, r1, x2, y2, r2) ==
    /\ r1 + r2 > 0
    /\ (x2 - x1) * (x2 - x1) + (y2 - y1) * (y2 - y1) < (r1 + r2) * (r1 + r2)

circles_overlap(x1, y1, r1, x2, y2, r2) ==
    /\ r1 + r2 + Buffer > 0
    /\ (x2 - x1) * (x2 - x1) + (y2 - y1) * (y2 - y1)
          < (r1 + r2 + Buffer) * (r1 + r2 + Buffer)

can_place_circle(cx, cy, cr) ==
    IF cx - cr < 0 \/ cx + cr > width \/ cy - cr < 0 \/ cy + cr > height
    THEN FALSE
    ELSE \A k \in 1..Len(placed_circles) :
            ~circles_overlap(cx, cy, cr, placed_circles[k][1],
                             placed_circles[k][2], placed_circles[k][3])

(***************************************************************************)
(* get_varied_radius: the bucket table, the weighted choice and the        *)
(* clamped randint.                                                        *)
(***************************************************************************)
\* weights in hundredths
size_weights == <<20, 30, 30, 15, 5>>

size_ranges ==
    << <<min_radius, min_radius + 3>>,
       <<min_radius + 3, min_radius + 8>>,
       <<min_radius + 8, min_radius + 13>>,
       <<min_radius + 13, min_radius + 18>>,
       <<min_radius + 18, max_radius>> >>

\* random.choices can return every entry of positive weight
Buckets == {b \in 1..Len(size_ranges) : size_weights[b] > 0}

\* get_varied_radius without the clamp of the upper end to max_radius
VariedRadii_unclamped(b) == size_ranges[b][1] .. size_ranges[b][2]

\* the values random.randint(lo, min(hi, max_radius)) can return for bucket b;
\* the empty set means the call raises ValueError
VariedRadii(b) == size_ranges[b][1] .. Min(size_ranges[b][2], max_radius)

\* random.randint(a, b) reaching one past its upper end
RandInt_past_end(a, b) == a .. (b + 1)

\* random.randint(a, b)
RandInt(a, b) == a .. b

\* insertion at the front of the list instead of an append
Insert_front(circles, cx, cy, cr) == <<<<cx, cy, cr>>>> \o circles

\* append with the two coordinates in the wrong order
Insert_swapped(circles, cx, cy, cr) == Append(circles, <<cy, cx, cr>>)

\* placed_circles.append((x, y, r))
Insert(circles, cx, cy, cr) == Append(circles, <<cx, cy, cr>>)

\* the sizes read from the first field of the tuples
sizes_from_x == [k \in 1..Len(placed_circles) |-> placed_circles[k][1]]

\* sizes = [r for _, _, r in placed_circles]
sizes == [k \in 1..Len(placed_circles) |-> placed_circles[k][3]]

RECURSIVE SeqSum(_)
SeqSum(s) == IF s = <<>> THEN 0 ELSE s[1] + SeqSum(Tail(s))

\* min(sizes) and max(sizes) of a non-empty list
SeqMin(s) == CHOOSE m \in {s[k] : k \in 1..Len(s)} : \A k \in 1..Len(s) : m <= s[k]
SeqMax(s) == CHOOSE m \in {s[k] : k \in 1..Len(s)} : \A k \in 1..Len(s) : m >= s[k]

\* the statistics record; avg is the exact quotient <<sum, count>>
SizeStats(s) ==
    [min |-> SeqMin(s), max |-> SeqMax(s), avg |-> <<SeqSum(s), Len(s)>>,
     total_circles |-> Len(s)]

\* size_stats before line 136 has run
NoStats == [min |-> 0, max |-> 0, avg |-> <<0, 0>>, total_circles |-> 0]

(***************************************************************************)
(* Initial states: the state at the head of the Phase 1 loop, for every    *)
(* valid configuration within the bounds.                                  *)
(***************************************************************************)
Init ==
    /\ width \in 1..MaxWidth
    /\ height \in 1..MaxHeight
    /\ min_radius \in 1..MaxMinRadius
    /\ max_radius \in (min_radius + 1)..MaxMaxRadius
    /\ density_factor \in 1..MaxDensityHalves
    /\ max_attempts \in 1..MaxBudget
    /\ target_circles =
          TargetCircles(width, height, min_radius, max_radius, density_factor)
    /\ target_circles <= MaxTarget
    /\ target_circles * max_attempts <= MaxBudget
    /\ placed_circles = <<>>
    /\ circles_placed = 0
    /\ total_attempts = 0
    /\ gap_fill_attempts = 0
    /\ i = 0
    /\ r = 0 /\ x = 0 /\ y = 0
    /\ size_stats = NoStats
    /\ pc = "phase1"
    /\ raised = "none"

\* an uncaught exception ends the run
Raise(site) == pc' = "error" /\ raised' = site

\* the counter incremented outside the if, for rejected candidates too
TryPlace_counts_rejected(cx, cy, cr) ==
    /\ circles_placed' = circles_placed + 1
    /\ placed_circles' = IF can_place_circle(cx, cy, cr)
                         THEN Insert(placed_circles, cx, cy, cr)
                         ELSE placed_circles

\* lines 90-101 and 123-132: test the candidate, insert it when it fits
TryPlace(cx, cy, cr) ==
    IF can_place_circle(cx, cy, cr)
    THEN /\ placed_circles' = Insert(placed_circles, cx, cy, cr)
         /\ circles_placed' = circles_placed + 1
    ELSE UNCHANGED <<placed_circles, circles_placed>>

\* the values of S the random source yields when it is restricted to the
\* multiples of g; g = 1 is the unrestricted source
Lattice(S, g) == {v \in S : v % g = 0}

\* lines 87-90 and 120-123: draw the centre for radius cr, then try to place;
\* the random source yields multiples of gx for x and of gy for y
DrawOn(cr, gx, gy) ==
    /\ r' = cr
    /\ IF RandInt(cr, width - cr) = {}
       THEN /\ Raise("randint_x")
            /\ UNCHANGED <<x, y, placed_circles, circles_placed>>
       ELSE \E cx \in Lattice(RandInt(cr, width - cr), gx) :
              /\ x' = cx
              /\ IF RandInt(cr, height - cr) = {}
                 THEN /\ Raise("randint_y")
                      /\ UNCHANGED <<y, placed_circles, circles_placed>>
                 ELSE \E cy \in Lattice(RandInt(cr, height - cr), gy) :
                        /\ y' = cy
                        /\ TryPlace(cx, cy, cr)
                        /\ UNCHANGED <<pc, raised>>

Draw(cr) == DrawOn(cr, 1, 1)

\* the Phase 1 loop running on the attempt budget alone
Phase1Iter_budget_only ==
    /\ pc = "phase1"
    /\ total_attempts < target_circles * max_attempts
    /\ \E b \in Buckets :
          IF VariedRadii(b) = {}
          THEN /\ Raise("get_varied_radius")
               /\ UNCHANGED <<r, x, y, placed_circles, circles_placed>>
          ELSE \E cr \in VariedRadii(b) : Draw(cr)
    /\ total_attempts' = IF pc' = "error" THEN total_attempts ELSE total_attempts + 1
    /\ UNCHANGED <<config, gap_fill_attempts, i, size_stats>>

\* one iteration of the Phase 1 loop (lines 84-106); the random source
\* yields multiples of gr for radii, of gx and gy for centres
Phase1IterOn(gr, gx, gy) ==
    /\ pc = "phase1"
    /\ circles_placed < target_circles
    /\ total_attempts < target_circles * max_attempts
    /\ \E b \in Buckets :
          IF VariedRadii(b) = {}
          THEN /\ Raise("get_varied_radius")
               /\ UNCHANGED <<r, x, y, placed_circles, circles_placed>>
          ELSE \E cr \in Lattice(VariedRadii(b), gr) : DrawOn(cr, gx, gy)
    /\ total_attempts' = IF pc' = "error" THEN total_attempts ELSE total_attempts + 1
    /\ UNCHANGED <<config, gap_fill_attempts, i, size_stats>>

Phase1Iter == Phase1IterOn(1, 1, 1)

\* the Phase 1 loop condition fails: go on to Phase 2 (lines 84, 116-117)
Phase1Exit ==
    /\ pc = "phase1"
    /\ ~(circles_placed < target_circles
           /\ total_attempts < target_circles * max_attempts)
    /\ gap_fill_attempts' = target_circles \div 2
    /\ i' = 0
    /\ pc' = "phase2"
    /\ UNCHANGED <<config, placed_circles, circles_placed, total_attempts,
                   r, x, y, size_stats, raised>>

\* Phase 2 taking the upper end of its radius range from max_radius
Phase2Iter_from_max ==
    /\ pc = "phase2"
    /\ i < gap_fill_attempts
    /\ \E cr \in RandInt(min_radius, max_radius + GapFillSpan) : Draw(cr)
    /\ i' = IF pc' = "error" THEN i ELSE i + 1
    /\ UNCHANGED <<config, total_attempts, gap_fill_attempts, size_stats>>

\* one iteration of the Phase 2 loop (lines 117-132)
Phase2IterOn(gr, gx, gy) ==
    /\ pc = "phase2"
    /\ i < gap_fill_attempts
    /\ \E cr \in Lattice(RandInt(min_radius, min_radius + GapFillSpan), gr) :
          DrawOn(cr, gx, gy)
    /\ i' = IF pc' = "error" THEN i ELSE i + 1
    /\ UNCHANGED <<config, total_attempts, gap_fill_attempts, size_stats>>

Phase2Iter == Phase2IterOn(1, 1, 1)

\* the Phase 2 loop is exhausted: statistics and return (lines 134-153)
Statistics ==
    /\ pc = "phase2"
    /\ i >= gap_fill_attempts
    /\ IF sizes = <<>>
       THEN Raise("min") /\ UNCHANGED size_stats
       ELSE /\ size_stats' = SizeStats(sizes)
            /\ pc' = "done"
            /\ UNCHANGED raised
    /\ UNCHANGED <<config, placed_circles, circles_placed, total_attempts,
                   gap_fill_attempts, i, r, x, y>>

Next == Phase1Iter \/ Phase1Exit \/ Phase2Iter \/ Statistics

Spec == Init /\ [][Next]_vars

(***************************************************************************)
(* get_varied_radius on its own: every pair min_radius < max_radius of     *)
(* positive integers within the bounds, sampled repeatedly.                *)
(***************************************************************************)
InitRadius ==
    /\ min_radius \in 1..MaxSampleMinRadius
    /\ max_radius \in (min_radius + 1)..MaxSampleMaxRadius
    /\ width = 0 /\ height = 0 /\ density_factor = 0 /\ max_attempts = 0
    /\ target_circles = 0
    /\ placed_circles = <<>>
    /\ circles_placed = 0
    /\ total_attempts = 0
    /\ gap_fill_attempts = 0
    /\ i = 0
    /\ r = 0 /\ x = 0 /\ y = 0
    /\ size_stats = NoStats
    /\ pc = "sample"
    /\ raised = "none"

\* r = get_varied_radius()
SampleRadius ==
    /\ pc = "sample"
    /\ \E b \in Buckets :
          IF VariedRadii(b) = {}
          THEN Raise("get_varied_radius") /\ UNCHANGED r
          ELSE \E cr \in VariedRadii(b) : r' = cr /\ UNCHANGED <<pc, raised>>
    /\ UNCHANGED <<config, placed_circles, circles_placed, total_attempts,
                   gap_fill_attempts, i, x, y, size_stats>>

NextRadius == SampleRadius

SpecRadius == InitRadius /\ [][NextRadius]_vars

(***************************************************************************)
(* Invalid configurations: min_radius >= max_radius, a radius of 0 or a    *)
(* canvas dimension of 0.  The function has no validation; the run starts  *)
(* at the computation of target_circles (lines 75-81).                     *)
(***************************************************************************)
InvalidConfiguration(w, h, mn, mx) ==
    mn >= mx \/ mn <= 0 \/ mx <= 0 \/ w <= 0 \/ h <= 0

InitInvalid ==
    /\ width \in 0..MaxWidth
    /\ height \in 0..MaxHeight
    /\ min_radius \in 0..MaxMaxRadius
    /\ max_radius \in 0..MaxMaxRadius
    /\ InvalidConfiguration(width, height, min_radius, max_radius)
    /\ density_factor \in 1..MaxDensityHalves
    /\ max_attempts \in 1..MaxBudget
    /\ IF min_radius + max_radius = 0
       THEN TRUE
       ELSE LET t == TargetCircles(width, height, min_radius, max_radius,
                                   density_factor)
            IN  t <= MaxTarget /\ t * max_attempts <= MaxBudget
    /\ target_circles = 0
    /\ placed_circles = <<>>
    /\ circles_placed = 0
    /\ total_attempts = 0
    /\ gap_fill_attempts = 0
    /\ i = 0
    /\ r = 0 /\ x = 0 /\ y = 0
    /\ size_stats = NoStats
    /\ pc = "entry"
    /\ raised = "none"

\* lines 75-81: the counters and target_circles; the division by
\* avg_circle_area raises ZeroDivisionError when min_radius + max_radius = 0
Entry ==
    /\ pc = "entry"
    /\ IF min_radius + max_radius = 0
       THEN Raise("target_circles") /\ UNCHANGED target_circles
       ELSE /\ target_circles' = TargetCircles(width, height, min_radius,
                                               max_radius, density_factor)
            /\ pc' = "phase1"
            /\ UNCHANGED raised
    /\ UNCHANGED <<width, height, min_radius, max_radius, density_factor,
                   max_attempts, placed_circles, circles_placed, total_attempts,
                   gap_fill_attempts, i, r, x, y, size_stats>>

NextInvalid == Entry \/ Next

SpecInvalid == InitInvalid /\ [][NextInvalid]_vars

(***************************************************************************)
(* The reference scenario: canvas 100x100, min_radius = 5, max_radius =    *)
(* 10, density_factor = 1.0 (2 halves), max_attempts at its default 50.    *)
(* The canvas is too large to enumerate every draw, so the random source   *)
(* is restricted: radii are multiples of 5, x is a multiple of 40 and y a  *)
(* multiple of 50.  Which calls raise is decided on the full ranges, so    *)
(* every behaviour of this specification is a behaviour of the program.    *)
(***************************************************************************)
InitScenario ==
    /\ width = 100 /\ height = 100
    /\ min_radius = 5 /\ max_radius = 10
    /\ density_factor = 2
    /\ max_attempts = 50
    /\ target_circles =
          TargetCircles(width, height, min_radius, max_radius, density_factor)
    /\ placed_circles = <<>>
    /\ circles_placed = 0
    /\ total_attempts = 0
    /\ gap_fill_attempts = 0
    /\ i = 0
    /\ r = 0 /\ x = 0 /\ y = 0
    /\ size_stats = NoStats
    /\ pc = "phase1"
    /\ raised = "none"

NextScenario ==
    \/ Phase1IterOn(5, 40, 50)
    \/ Phase1Exit
    \/ Phase2IterOn(5, 40, 50)
    \/ Statistics

SpecScenario == InitScenario /\ [][NextScenario]_vars

(***************************************************************************)
(* Properties.                                                             *)
(***************************************************************************)
Sq(n) == n * n

\* C1: every two distinct circles of the placed-set keep their centres at
\* least r1 + r2 + buffer apart (compared as squares of integers).
C1_NoOverlap ==
    \A a, b \in 1..Len(placed_circles) :
        a < b =>
            Sq(placed_circles[a][1] - placed_circles[b][1])
              + Sq(placed_circles[a][2] - placed_circles[b][2])
                >= Sq(placed_circles[a][3] + placed_circles[b][3] + Buffer)

\* a finished run that has placed two circles on a diagonal
C1_Witness ==
    /\ Len(placed_circles) >= 2
    /\ placed_circles[1][1] # placed_circles[2][1]
    /\ placed_circles[1][2] # placed_circles[2][2]
    /\ pc = "done"

\* C2: every circle of the placed-set lies inside the canvas:
\* r <= x <= width - r and r <= y <= height - r.
C2_InBounds ==
    \A k \in 1..Len(placed_circles) :
        LET c == placed_circles[k] IN
            /\ c[3] <= c[1] /\ c[1] <= width - c[3]
            /\ c[3] <= c[2] /\ c[2] <= height - c[3]

\* a circle touching the right and the top edge of a canvas that is not square
C2_Witness ==
    /\ width # height
    /\ \E k \in 1..Len(placed_circles) :
          /\ placed_circles[k][1] + placed_circles[k][3] = width
          /\ placed_circles[k][2] - placed_circles[k][3] = 0

\* C3: under a valid configuration no run raises an error.
C3_NeverRaises == pc # "error"

\* C4: a circle appended in Phase 1 has its radius in
\* min_radius..max_radius, one appended in Phase 2 has it in
\* min_radius..min_radius + 5.
C4_RadiusRangePerPhase ==
    [][Len(placed_circles') > Len(placed_circles) =>
          /\ pc = "phase1" =>
                Last(placed_circles')[3] \in min_radius..max_radius
          /\ pc = "phase2" =>
                Last(placed_circles')[3] \in min_radius..(min_radius + GapFillSpan)
          /\ pc \in {"phase1", "phase2"}]_vars

\* Phase 2 has just appended its candidate behind a Phase 1 circle
C4_Witness ==
    /\ pc = "phase2" /\ i > 0
    /\ Len(placed_circles) >= 2
    /\ Last(placed_circles) = <<x, y, r>>

\* C5: Phase 1 never exceeds target_circles * max_attempts attempts, every
\* iteration adds exactly one to the attempt counter, and Phase 1 ends
\* exactly when the target or the attempt budget is reached.
C5_Phase1Exit ==
    [][pc = "phase1" =>
          /\ total_attempts' <= target_circles * max_attempts
          /\ pc' = "phase1" => total_attempts' = total_attempts + 1
          /\ pc' # "phase1" =>
                \/ circles_placed = target_circles
                \/ total_attempts = target_circles * max_attempts]_vars

\* C6: Phase 2 is left only after exactly target_circles \div 2 draws, and
\* it is left for Done.
C6_Phase2DrawCount ==
    [][(pc = "phase2" /\ pc' # "phase2") =>
          (i = target_circles \div 2 /\ pc' = "done")]_vars

\* C7: get_varied_radius always returns a radius: it never raises.
C7_SampleNeverFails == raised # "get_varied_radius"

\* C8: every radius get_varied_radius returns is in min_radius..max_radius.
C8_SampleInRange == r # 0 => (min_radius <= r /\ r <= max_radius)

\* a returned radius that the clamp to max_radius has cut off
C8_Witness == pc = "sample" /\ r = max_radius /\ max_radius < min_radius + 3

\* C9: an iteration of Phase 1 or Phase 2 whose sampled radius leaves no
\* centre (width < 2r or height < 2r) stays in its phase, leaves the
\* placed-set alone and advances the phase's counter by one.
C9_DegenerateSkipped ==
    [][(/\ pc \in {"phase1", "phase2"}
        /\ pc' \in {pc, "error"}
        /\ raised' \notin {"get_varied_radius", "min"}
        /\ (width < 2 * r' \/ height < 2 * r')) =>
          /\ pc' = pc
          /\ placed_circles' = placed_circles
          /\ pc = "phase1" => total_attempts' = total_attempts + 1
          /\ pc = "phase2" => i' = i + 1]_vars

\* C10: a run whose placement ends with an empty placed-set reaches Done
\* and reports a count of 0.
C10_EmptyRunReachesDone ==
    [][(/\ pc = "phase2" /\ pc' # "phase2"
        /\ i = gap_fill_attempts
        /\ placed_circles = <<>>) =>
          (pc' = "done" /\ size_stats'.total_circles = 0)]_vars

\* C11: an invalid configuration ends in a configuration error before any
\* candidate is drawn: the only state after entry is that error, with the
\* placed-set still empty and the attempt counter still 0.
C11_InvalidFailsFast ==
    pc # "entry" =>
        /\ pc = "error" /\ raised = "configuration"
        /\ placed_circles = <<>>
        /\ total_attempts = 0

\* C12: in the reference scenario target_circles is 56; Phase 1 places at
\* most 56 circles, all of them apart, in bounds and with a radius in 5..10;
\* Phase 1 is followed by Phase 2, which is left after exactly 28 draws, each
\* with a radius in 5..10.
C12_ReferenceScenario ==
    /\ [](/\ target_circles = 56
          /\ pc = "phase1" => circles_placed <= 56
          /\ C1_NoOverlap
          /\ C2_InBounds
          /\ \A k \in 1..Len(placed_circles) : placed_circles[k][3] \in 5..10
          /\ i > 0 => r \in 5..10)
    /\ [][/\ (pc = "phase1" /\ pc' # "phase1") => pc' = "phase2"
          /\ (pc = "phase2" /\ pc' # "phase2") => i = 28]_vars

\* C13: the placed-set starts empty, every step leaves it unchanged or
\* appends exactly one circle behind the existing entries, and the step that
\* ends Phase 2 and every later step leave it unchanged.
C13_AppendOnly ==
    /\ placed_circles = <<>>
    /\ [][/\ \/ placed_circles' = placed_circles
             \/ /\ Len(placed_circles') = Len(placed_circles) + 1
                /\ SubSeq(placed_circles', 1, Len(placed_circles)) = placed_circles
          /\ (pc \notin {"phase1", "phase2"}
                \/ (pc = "phase2" /\ i >= gap_fill_attempts)) =>
                placed_circles' = placed_circles]_vars

\* a finished run in which Phase 1 has appended one circle and dropped one
\* candidate, and Phase 2 has appended a second circle
C13_Witness ==
    /\ pc = "done"
    /\ Len(placed_circles) = 2
    /\ total_attempts = 2 /\ i = 1

\* C14: an iteration whose candidate can_place_circle refuses leaves the
\* placed-set and placed_count unchanged; in Phase 1 only the attempt
\* counter advances, in Phase 2 only the loop index.
C14_RejectedFrame ==
    [][(/\ pc \in {"phase1", "phase2"}
        /\ pc' = pc
        /\ ~can_place_circle(x', y', r')) =>
          /\ placed_circles' = placed_circles
          /\ circles_placed' = circles_placed
          /\ pc = "phase1" =>
                (total_attempts' = total_attempts + 1 /\ i' = i)
          /\ pc = "phase2" =>
                (i' = i + 1 /\ total_attempts' = total_attempts)
          /\ UNCHANGED <<config, gap_fill_attempts, size_stats>>]_vars

\* Phase 1 has had a candidate refused
C14_Witness ==
    /\ pc = "phase1"
    /\ total_attempts > circles_placed
    /\ circles_placed > 0

\* r holds a radius drawn by Phase 2: a Phase 2 iteration has completed, or
\* Phase 2 had draws to make and a centre draw has raised
Phase2HasDrawn ==
    i > 0 \/ (gap_fill_attempts > 0 /\ raised \in {"randint_x", "randint_y"})

C16_PlacedCountBounds ==
    /\ pc = "phase1" =>
          (circles_placed <= target_circles /\ circles_placed <= total_attempts)
    /\ pc \in {"phase2", "done"} =>
          /\ circles_placed <= target_circles + i
          /\ circles_placed <= total_attempts + i
          /\ i <= target_circles \div 2
    /\ Len(placed_circles) <= target_circles + target_circles \div 2

\* a finished run that has filled both the target and every gap-fill draw
C16_Witness ==
    /\ pc = "done"
    /\ target_circles >= 2
    /\ Len(placed_circles) = target_circles + target_circles \div 2

\* C17: circles_placed is the length of the placed-set; at Done the reported
\* total is that length, the reported min and max are the smallest and the
\* largest radius of the placed-set, and the record is what a recomputation
\* from the placed-set gives.
C17_StatisticsAgree ==
    /\ circles_placed = Len(placed_circles)
    /\ pc = "done" =>
          /\ size_stats.total_circles = Len(placed_circles)
          /\ \A k \in 1..Len(placed_circles) :
                /\ size_stats.min <= placed_circles[k][3]
                /\ placed_circles[k][3] <= size_stats.max
          /\ \E k \in 1..Len(placed_circles) : placed_circles[k][3] = size_stats.min
          /\ \E k \in 1..Len(placed_circles) : placed_circles[k][3] = size_stats.max
          /\ size_stats = SizeStats(sizes)

\* statistics reported for a placed-set of several circles
C17_Witness ==
    /\ pc = "done"
    /\ size_stats.total_circles >= 2
    /\ size_stats.min = min_radius
    /\ size_stats.avg[2] = circles_placed

\* C18: the candidate of every completed iteration passes the boundary test
\* of can_place_circle, and a candidate that was not appended lies closer
\* than r1 + r2 + buffer to a circle of the placed-set.
C18_NoBoundaryRejection ==
    (pc # "error" /\ (total_attempts > 0 \/ i > 0)) =>
        /\ ~(x - r < 0 \/ x + r > width \/ y - r < 0 \/ y + r > height)
        /\ (placed_circles = <<>> \/ Last(placed_circles) # <<x, y, r>>) =>
              \E k \in 1..Len(placed_circles) :
                  Sq(placed_circles[k][1] - x) + Sq(placed_circles[k][2] - y)
                      < Sq(placed_circles[k][3] + r + Buffer)

\* a Phase 2 candidate that was refused
C18_Witness ==
    /\ pc = "phase2" /\ i > 0
    /\ Last(placed_circles) # <<x, y, r>>

\* C19: no integer radius can be produced by two different buckets: the
\* radius get_varied_radius has returned lies in the range of one bucket only.
C19_BucketsDisjoint ==
    (pc = "sample" /\ r # 0) =>
        \A b1, b2 \in Buckets :
            (r \in VariedRadii(b1) /\ r \in VariedRadii(b2)) => b1 = b2

====
